---- MODULE Spec2Model ----
(***************************************************************************)
(* A model of arma3-automate.py: one process run of the script (argument   *)
(* parsing, Config loading, the optional clean, and download_mods with its *)
(* staleness check, steam-cmd invocation, verification and symlinking)     *)
(* over a filesystem that persists from one run to the next.               *)
(*                                                                         *)
(* Strings the script builds with f-strings are modelled as sequences of   *)
(* their space- or slash-separated parts; file names are sequences of      *)
(* chunks so that a glob pattern can look at their last character.         *)
(***************************************************************************)
EXTENDS Integers, Sequences, FiniteSets, TLC

\* ------------------------------------------------------------------ bounds
\* Timestamps (seconds since the epoch in the code) range over 0..MaxTime.
MaxTime == 1
\* The size of a daylight-saving shift of the local clock, in model seconds.
DstShift == 1
\* Completed runs of createModSymlinks are counted up to MaxReconciles.
MaxReconciles == 2

Times == 0 .. MaxTime

\* ------------------------------------------------------------ Python values
\* Python's None, kept apart from the string "None" that str(None) returns.
None == "<NoneType>"

str(v) == IF v = None THEN "None" ELSE v

\* Sentinels among the integers (a timestamp is >= 0).
Absent == -1        \* no such directory
NoMarker == -1      \* UPDATE_PATTERN.search(response) found nothing
NetError == -2      \* request.urlopen raised
NotRequested == -3  \* no request was made for the item

\* Exit statuses of the process.
Running == -1

\* The status the interpreter ends with on SystemExit(code).
SystemExitStatus(code) == IF code = None THEN 0 ELSE 1

\* The builtin exit() as the script calls it: no argument, SystemExit(None).
exit == SystemExitStatus(None)

\* An exception nobody catches: traceback, status 1.
UncaughtException == 1

\* ------------------------------------------------------- configuration data
\* The registry of the configuration file, in file order (name, id).
Registry == << << <<"alpha">>, "100" >>, << <<"beta">>, "200" >> >>

ModIds == {Registry[i][2] : i \in 1 .. Len(Registry)}

\* A name under the mods directory that no registry item has; it ends with
\* a quote character.
StrayName == <<"old", "'">>

EntryNames == {Registry[i][1] : i \in 1 .. Len(Registry)} \cup {StrayName}

ARMA_3_SERVER_ID == "233780"

\* Config._CONFIG_SCHEMA: the keys of the schema's "required" list.
RequiredKeys ==
  {"steam_cmd", "server_directory", "mod_directory", "mods", "arma3_workshop_id"}

OptionalKeys == {"steam_user", "do_game_update"}

\* The JSON documents config.json may hold: every required key but possibly
\* "mods", and any of the optional keys.
JsonDocs ==
  [ keys : {RequiredKeys \cup o : o \in SUBSET OptionalKeys}
             \cup {(RequiredKeys \ {"mods"}) \cup OptionalKeys},
    steam_cmd : {"steamcmd"},
    server_directory : {"/srv/arma3"},
    mod_directory : {"/srv/arma3/mods"},
    steam_user : {"bob"},
    do_game_update : BOOLEAN,
    mods : {Registry},
    arma3_workshop_id : {"107410"} ]

\* A field of a document that lacks the key is never read; keep one value.
NormalDoc(d) ==
  /\ ("do_game_update" \notin d.keys => d.do_game_update = FALSE)
  /\ ("mods" \notin d.keys => d.do_game_update = FALSE)

ConfigFiles ==
  { [status |-> s, json |-> d] :
      s \in {"json"}, d \in {x \in JsonDocs : NormalDoc(x)} }
  \cup
  { [status |-> s, json |-> d] :
      s \in {"missing", "malformed"},
      d \in {x \in JsonDocs : x.keys = RequiredKeys /\ NormalDoc(x)} }

\* jsonschema.validate against _CONFIG_SCHEMA (the values have their types).
validate(json) == RequiredKeys \subseteq json.keys

\* dict.get
get(json, key, value) == IF key \in json.keys THEN value ELSE None

NoConfig ==
  [ STEAM_CMD |-> None, SERVER_DIR |-> None, MODS_DIR |-> None, MODS |-> <<>>,
    STEAM_USER |-> None, ARMA_3_WORKSHOP_ID |-> None, WORKSHOP_DIR |-> <<>> ]

\* Config._extractConfig
extractConfig(json) ==
  [ STEAM_CMD |-> str(json.steam_cmd),
    SERVER_DIR |-> json.server_directory,
    MODS_DIR |-> json.mod_directory,
    MODS |-> json.mods,
    STEAM_USER |->
      str(IF get(json, "steam_user", json.steam_user) # None
            THEN get(json, "steam_user", json.steam_user) ELSE None),
    ARMA_3_WORKSHOP_ID |-> str(json.arma3_workshop_id),
    WORKSHOP_DIR |->
      <<json.server_directory, "steamapps/workshop/content", str(json.arma3_workshop_id)>> ]

\* ------------------------------------------------------------------- state
VARIABLES
  configFile,     \* config.json on disk: [status, json]
  workshopCtime,  \* os.path.getctime(WORKSHOP_DIR), or Absent when it is no directory
  content,        \* content[id]: ctime of WORKSHOP_DIR/<id>, or Absent
  modsDirExists,  \* os.path.isdir(MODS_DIR)
  modsEntries,    \* modsEntries[name]: the entry MODS_DIR/<name>
  pc,             \* where the process is
  args,           \* argparse's result: [clean, no_download_mods]
  config,         \* the Config object's attributes
  steamCmdQuery,  \* the SteamCmdQuery object: [baseQuery, autoQuit, runAsSudo, parameters]
  queryString,    \* the command line handed to os.system
  responses,      \* responses[i]: what the change-log request for MODS[i] returned
  judged,         \* judged[i]: what doesModNeedDownload returned for MODS[i]
  symlinked,      \* the names os.symlink was called for in this run
  reconciles,     \* how many runs of createModSymlinks completed (up to MaxReconciles)
  errorLog,       \* the Log.error calls of this run
  exitStatus      \* the process's exit status, Running while it runs

vars ==
  << configFile, workshopCtime, content, modsDirExists, modsEntries, pc, args,
     config, steamCmdQuery, queryString, responses, judged, symlinked, reconciles,
     errorLog, exitStatus >>

fsVars == <<workshopCtime, content, modsDirExists, modsEntries>>

\* ------------------------------------------------------------- file system
NoEntry == [kind |-> "none", target |-> <<>>]

RegularFile == [kind |-> "file", target |-> <<>>]

Symlink(target) == [kind |-> "link", target |-> target]

\* f"{config.WORKSHOP_DIR}/{modId}"
RealPath(cfg, modId) == Append(cfg.WORKSHOP_DIR, modId)

\* A path outside the workshop directory.
Elsewhere == <<"/srv/old-mods">>

isdir(ctime) == ctime # Absent

\* A variant that tests os.path.isfile instead: a link to a directory is no file.
islink_isfile(entry) == entry.kind = "file"

islink(entry) == entry.kind = "link"

\* os.path.exists without following links: something is there.
lexists(entry) == entry.kind # "none"

\* fnmatch of a file name against the pattern "*<last>": the name ends with
\* <last> (and a leading dot is never matched by "*").
fnmatchStar(name, last) == name[Len(name)] = last /\ name[1] # "."

\* glob.glob(f"{config.MODS_DIR}/*'"): the entries of MODS_DIR whose name
\* matches "*'".
globModFolders(entries) ==
  {n \in DOMAIN entries : lexists(entries[n]) /\ fnmatchStar(n, "'")}

\* ------------------------------------------------------------ SteamCmdQuery
NoQuery == [baseQuery |-> "", autoQuit |-> TRUE, runAsSudo |-> TRUE, parameters |-> <<>>]

\* A variant that inserts at the front of the list.
addParameter_front(q, parameter) == [q EXCEPT !.parameters = <<parameter>> \o @]

addParameter(q, parameter) == [q EXCEPT !.parameters = Append(@, parameter)]

\* SteamCmdQuery.__init__ with the defaults autoQuit = True, runAsSudo = True.
\* _parameters is the class attribute's list: it is empty when the process's
\* one SteamCmdQuery is constructed.
NewSteamCmdQuery(exe, forceInstallDir, username) ==
  LET q0 == [baseQuery |-> exe, autoQuit |-> TRUE, runAsSudo |-> TRUE, parameters |-> <<>>]
      q1 == addParameter(q0, <<"+force_install_dir", forceInstallDir>>)
  IN IF username # None THEN addParameter(q1, <<"+login", username>>) ELSE q1

RECURSIVE join(_)
\* " ".join(parameters), as the sequence of the words
join(ps) == IF ps = <<>> THEN <<>> ELSE Head(ps) \o join(Tail(ps))

getQueryString(q) ==
  (IF q.runAsSudo THEN <<"sudo">> ELSE <<>>) \o <<q.baseQuery>> \o join(q.parameters)

\* --------------------------------------------------------- staleness check
\* datetime.fromtimestamp: the local wall-clock time of a timestamp. The
\* local zone leaves daylight-saving time at fallBack (0: it never does), so
\* the timestamps before it read DstShift later.
fromtimestamp(ts, fallBack) == IF ts < fallBack THEN ts + DstShift ELSE ts

\* A variant that returns False when the response has no marker.
doesModNeedDownload_nomatch_false(modId, pathCtime, itemCtimes, response, fallBack) ==
  IF isdir(pathCtime) /\ isdir(itemCtimes[modId])
    THEN IF response # NoMarker
           THEN fromtimestamp(response, fallBack) >= fromtimestamp(pathCtime, fallBack)
           ELSE FALSE
    ELSE TRUE

\* A variant that tests the workshop directory alone before it compares.
doesModNeedDownload_root_only(modId, pathCtime, itemCtimes, response, fallBack) ==
  IF isdir(pathCtime)
    THEN IF response # NoMarker
           THEN fromtimestamp(response, fallBack) >= fromtimestamp(pathCtime, fallBack)
           ELSE TRUE
    ELSE TRUE

\* doesModNeedDownload, given the change-log response (read only when both
\* directories exist).
doesModNeedDownload(modId, pathCtime, itemCtimes, response, fallBack) ==
  IF isdir(pathCtime) /\ isdir(itemCtimes[modId])
    THEN IF response # NoMarker
           THEN fromtimestamp(response, fallBack) >= fromtimestamp(pathCtime, fallBack)
           ELSE TRUE
    ELSE TRUE

\* Whether doesModNeedDownload sends the change-log request.
requestsChangelog(modId, pathCtime, itemCtimes) ==
  isdir(pathCtime) /\ isdir(itemCtimes[modId])

DownloadItem(cfg, modId) == <<"+workshop_download_item", cfg.ARMA_3_WORKSHOP_ID, modId>>

RECURSIVE addModDownloadsLoop(_, _, _, _, _, _, _)
\* The for loop of addModDownloadsToQueryParameters from item i on;
\* acc = [query, judged, raised].
addModDownloadsLoop(i, acc, cfg, pathCtime, itemCtimes, resp, fallBack) ==
  IF i > Len(cfg.MODS) THEN acc
  ELSE
    LET modId == cfg.MODS[i][2]
    IN IF requestsChangelog(modId, pathCtime, itemCtimes) /\ resp[i] = NetError
         THEN [acc EXCEPT !.raised = TRUE]
         ELSE
           LET need == doesModNeedDownload(modId, pathCtime, itemCtimes, resp[i], fallBack)
               next == [ query |-> IF need
                                     THEN addParameter(acc.query, DownloadItem(cfg, modId))
                                     ELSE acc.query,
                         judged |-> Append(acc.judged, need),
                         raised |-> FALSE ]
           IN addModDownloadsLoop(i + 1, next, cfg, pathCtime, itemCtimes, resp, fallBack)

addModDownloadsToQueryParameters(q, cfg, pathCtime, itemCtimes, resp, fallBack) ==
  addModDownloadsLoop(1, [query |-> q, judged |-> <<>>, raised |-> FALSE],
                      cfg, pathCtime, itemCtimes, resp, fallBack)

addGameUpdateToQueryParameters(q) ==
  addParameter(q, <<"+app_update", ARMA_3_SERVER_ID, "validate">>)

\* ------------------------------------------------------------ verification
\* isModDownloaded
isModDownloaded(modId, itemCtimes) == isdir(itemCtimes[modId])

RECURSIVE assertLoop(_, _, _, _)
\* The for loop of assertAllModsAreDownloaded from item i on; acc is the
\* sequence of Log.error calls so far.
assertLoop(i, acc, mods, itemCtimes) ==
  IF i > Len(mods) THEN acc
  ELSE assertLoop(i + 1,
                  IF ~isModDownloaded(mods[i][2], itemCtimes)
                    THEN Append(acc, <<"could not be downloaded", mods[i][1]>>)
                    ELSE acc,
                  mods, itemCtimes)

\* A variant that reports the missing items but never sets abortScript.
assertAllModsAreDownloaded_no_abort(cfg, itemCtimes) ==
  [ errors |-> assertLoop(1, <<>>, cfg.MODS, itemCtimes), abortScript |-> FALSE ]

\* assertAllModsAreDownloaded: [errors, abortScript]
assertAllModsAreDownloaded(cfg, itemCtimes) ==
  LET errs == assertLoop(1, <<>>, cfg.MODS, itemCtimes)
  IN [ errors |-> IF errs # <<>> THEN Append(errs, <<"Unrecoverable error", <<>>>>) ELSE errs,
       abortScript |-> errs # <<>> ]

\* ---------------------------------------------------------------- symlinks
RECURSIVE createModSymlinksLoop(_, _, _, _, _)
\* The for loop of createModSymlinks from item i on;
\* acc = [entries, symlinked, errors, outcome], outcome "ok", "exit" (exit()
\* was called) or "raise" (os.symlink raised).
createModSymlinksLoop(i, acc, cfg, itemCtimes, dirExists) ==
  IF i > Len(cfg.MODS) THEN acc
  ELSE
    LET modName == cfg.MODS[i][1]
        modId == cfg.MODS[i][2]
        real_path == RealPath(cfg, modId)
    IN IF isdir(itemCtimes[modId])
         THEN IF ~islink(acc.entries[modName])
                THEN IF ~dirExists \/ lexists(acc.entries[modName])
                       \* FileNotFoundError, FileExistsError
                       THEN [acc EXCEPT !.outcome = "raise"]
                       ELSE createModSymlinksLoop(i + 1,
                              [acc EXCEPT !.entries[modName] = Symlink(real_path),
                                          !.symlinked = @ \cup {modName}],
                              cfg, itemCtimes, dirExists)
                ELSE createModSymlinksLoop(i + 1, acc, cfg, itemCtimes, dirExists)
         ELSE [acc EXCEPT !.outcome = "exit",
                          !.errors = Append(@, <<"was expected but is not present", modName>>)]

createModSymlinks(mods, cfg, entries, itemCtimes, dirExists) ==
  createModSymlinksLoop(1,
    [entries |-> entries, symlinked |-> {}, errors |-> <<>>, outcome |-> "ok"],
    [cfg EXCEPT !.MODS = mods], itemCtimes, dirExists)

\* ------------------------------------------------------------------- clean
\* os.remove of every name of a set.
removeAll(entries, names) ==
  [n \in DOMAIN entries |-> IF n \in names THEN NoEntry ELSE entries[n]]

\* clean: the file system it leaves, [workshopCtime, content, modsEntries].
clean(wsCtime, itemCtimes, dirExists, entries) ==
  [ workshopCtime |-> IF isdir(wsCtime) THEN Absent ELSE wsCtime,
    content |-> IF isdir(wsCtime) THEN [id \in DOMAIN itemCtimes |-> Absent] ELSE itemCtimes,
    modsEntries |-> IF dirExists THEN removeAll(entries, globModFolders(entries))
                    ELSE entries ]

\* ---------------------------------------------------------------- steam-cmd
\* The ids the command line asks steam-cmd to download.
RequestedIds(q) ==
  { q.parameters[k][3] :
      k \in {j \in 1 .. Len(q.parameters) : q.parameters[j][1] = "+workshop_download_item"} }

\* What steam-cmd leaves on disk when, at time t, it fetches the items of got.
Fetched(wsCtime, itemCtimes, got, t) ==
  [ workshopCtime |->
      IF \E id \in got : ~isdir(itemCtimes[id]) THEN t ELSE wsCtime,
    content |-> [id \in DOMAIN itemCtimes |-> IF id \in got THEN t ELSE itemCtimes[id]] ]

\* -------------------------------------------------------------------- Init
\* The entries a name of the mods directory may have before the first run: a
\* registry name has nothing, a link to its item's content, a link left from
\* an older setup, or a regular file; the stray name has nothing or a file.
InitialEntries(json, n) ==
  IF n = StrayName THEN {NoEntry, RegularFile}
  ELSE {NoEntry, RegularFile, Symlink(Elsewhere)}
         \cup {Symlink(RealPath(extractConfig(json), Registry[i][2])) :
                 i \in {j \in 1 .. Len(Registry) : Registry[j][1] = n}}

Init ==
  /\ configFile \in ConfigFiles
  /\ workshopCtime \in {Absent} \cup Times
  /\ content \in [ModIds -> {Absent} \cup Times]
  /\ (~isdir(workshopCtime) => \A id \in ModIds : ~isdir(content[id]))
  /\ modsDirExists \in BOOLEAN
  /\ modsEntries \in [EntryNames -> {NoEntry, RegularFile, Symlink(Elsewhere)}
                        \cup {Symlink(RealPath(extractConfig(configFile.json), id)) : id \in ModIds}]
  /\ \A n \in EntryNames : modsEntries[n] \in InitialEntries(configFile.json, n)
  /\ (~modsDirExists => \A n \in EntryNames : modsEntries[n] = NoEntry)
  /\ pc = "idle"
  /\ args = [clean |-> FALSE, no_download_mods |-> FALSE]
  /\ config = NoConfig
  /\ steamCmdQuery = NoQuery
  /\ queryString = <<>>
  /\ responses = <<>>
  /\ judged = <<>>
  /\ symlinked = {}
  /\ reconciles = 0
  /\ errorLog = <<>>
  /\ exitStatus = Running

\* ----------------------------------------------------------------- actions
\* The interpreter starts the script: parser.parse_args().
StartRun ==
  /\ pc \in {"idle", "done", "exited", "crashed"}
  /\ \E c \in BOOLEAN, n \in BOOLEAN : args' = [clean |-> c, no_download_mods |-> n]
  /\ pc' = "main"
  /\ config' = NoConfig
  /\ steamCmdQuery' = NoQuery
  /\ queryString' = <<>>
  /\ responses' = <<>>
  /\ judged' = <<>>
  /\ symlinked' = {}
  /\ errorLog' = <<>>
  /\ exitStatus' = Running
  /\ UNCHANGED <<configFile, fsVars, reconciles>>

\* config = Config(filename="config.json")
LoadConfig ==
  /\ pc = "main"
  /\ IF configFile.status = "missing"
       THEN /\ errorLog' = Append(errorLog, <<"does not exist or is not accessible", <<>>>>)
            /\ pc' = "exited"
            /\ exitStatus' = exit
            /\ UNCHANGED config
     ELSE IF configFile.status = "malformed" \/ ~validate(configFile.json)
       THEN /\ errorLog' = Append(errorLog, <<"Malformed json file", <<>>>>)
            /\ pc' = "exited"
            /\ exitStatus' = exit
            /\ UNCHANGED config
     ELSE /\ config' = extractConfig(configFile.json)
          /\ pc' = "config"
          /\ UNCHANGED <<errorLog, exitStatus>>
  /\ UNCHANGED <<configFile, fsVars, args, steamCmdQuery, queryString, responses,
                 judged, symlinked, reconciles>>

\* if args.clean: clean(config)
Clean ==
  /\ pc = "config"
  /\ args.clean
  /\ LET fs == clean(workshopCtime, content, modsDirExists, modsEntries)
     IN /\ workshopCtime' = fs.workshopCtime
        /\ content' = fs.content
        /\ modsEntries' = fs.modsEntries
  /\ pc' = "cleaned"
  /\ UNCHANGED <<configFile, modsDirExists, args, config, steamCmdQuery, queryString,
                 responses, judged, symlinked, reconciles, errorLog, exitStatus>>

\* The script is past its "if args.clean" statement.
PastClean == pc = "cleaned" \/ (pc = "config" /\ ~args.clean)

\* if not args.no_download_mods is false: the script ends.
SkipDownload ==
  /\ PastClean
  /\ args.no_download_mods
  /\ pc' = "done"
  /\ exitStatus' = 0
  /\ UNCHANGED <<configFile, fsVars, args, config, steamCmdQuery, queryString,
                 responses, judged, symlinked, reconciles, errorLog>>

\* download_mods: steamCmdQuery = SteamCmdQuery(...)
ConstructQuery ==
  /\ PastClean
  /\ ~args.no_download_mods
  /\ steamCmdQuery' = NewSteamCmdQuery(config.STEAM_CMD, config.SERVER_DIR, config.STEAM_USER)
  /\ pc' = "query"
  /\ UNCHANGED <<configFile, fsVars, args, config, queryString, responses, judged,
                 symlinked, reconciles, errorLog, exitStatus>>

\* The responses the change-log requests of one loop may get: one per item
\* the loop sends a request for, none after a request that raised.
PossibleResponses ==
  { r \in [1 .. Len(config.MODS) -> {NotRequested, NoMarker, NetError} \cup Times] :
      \A i \in 1 .. Len(config.MODS) :
        (r[i] # NotRequested) <=>
          /\ requestsChangelog(config.MODS[i][2], workshopCtime, content)
          /\ \A j \in 1 .. i - 1 : r[j] # NetError }

\* download_mods: addModDownloadsToQueryParameters(steamCmdQuery, config)
AddModDownloads ==
  /\ pc = "query"
  /\ \E resp \in PossibleResponses, fallBack \in Times :
       LET r == addModDownloadsToQueryParameters(steamCmdQuery, config, workshopCtime,
                                                 content, resp, fallBack)
       IN /\ responses' = resp
          /\ steamCmdQuery' = r.query
          /\ judged' = r.judged
          /\ pc' = IF r.raised THEN "crashed" ELSE "added"
          /\ exitStatus' = IF r.raised THEN UncaughtException ELSE exitStatus
  /\ UNCHANGED <<configFile, fsVars, args, config, queryString, symlinked, reconciles,
                 errorLog>>

\* download_mods: steamCmdQuery.run(); steam-cmd fetches some of the items it
\* was asked for at some time t.
RunSteamCmd ==
  /\ pc = "added"
  /\ LET q == IF steamCmdQuery.autoQuit THEN addParameter(steamCmdQuery, <<"+quit">>)
              ELSE steamCmdQuery
     IN /\ steamCmdQuery' = q
        /\ queryString' = getQueryString(q)
        /\ \E got \in SUBSET RequestedIds(q), t \in Times :
             LET fs == Fetched(workshopCtime, content, got, t)
             IN /\ workshopCtime' = fs.workshopCtime
                /\ content' = fs.content
  /\ pc' = "fetched"
  /\ responses' = <<>>
  /\ UNCHANGED <<configFile, modsDirExists, modsEntries, args, config, judged,
                 symlinked, reconciles, errorLog, exitStatus>>

\* download_mods: assertAllModsAreDownloaded(config)
AssertAllModsAreDownloaded ==
  /\ pc = "fetched"
  /\ LET r == assertAllModsAreDownloaded(config, content)
     IN /\ errorLog' = errorLog \o r.errors
        /\ pc' = IF r.abortScript THEN "exited" ELSE "verified"
        /\ exitStatus' = IF r.abortScript THEN exit ELSE exitStatus
  /\ UNCHANGED <<configFile, fsVars, args, config, steamCmdQuery, queryString,
                 responses, judged, symlinked, reconciles>>

\* download_mods: createModSymlinks(config.MODS, config), and the script ends.
CreateModSymlinks ==
  /\ pc = "verified"
  /\ LET r == createModSymlinks(config.MODS, config, modsEntries, content, modsDirExists)
     IN /\ modsEntries' = r.entries
        /\ symlinked' = r.symlinked
        /\ reconciles' = IF r.outcome = "ok" /\ reconciles < MaxReconciles
                           THEN reconciles + 1 ELSE reconciles
        /\ errorLog' = errorLog \o r.errors
        /\ pc' = CASE r.outcome = "ok" -> "done"
                   [] r.outcome = "exit" -> "exited"
                   [] OTHER -> "crashed"
        /\ exitStatus' = CASE r.outcome = "ok" -> 0
                           [] r.outcome = "exit" -> exit
                           [] OTHER -> UncaughtException
  /\ UNCHANGED <<configFile, workshopCtime, content, modsDirExists, args, config,
                 steamCmdQuery, queryString, responses, judged>>

Next ==
  \/ StartRun
  \/ LoadConfig
  \/ Clean
  \/ SkipDownload
  \/ ConstructQuery
  \/ AddModDownloads
  \/ RunSteamCmd
  \/ AssertAllModsAreDownloaded
  \/ CreateModSymlinks

Spec == Init /\ [][Next]_vars

\* ------------------------------------------------------------------ claims
Params == steamCmdQuery.parameters

Items == 1 .. Len(config.MODS)

ItemName(i) == config.MODS[i][1]

ItemId(i) == config.MODS[i][2]

\* os.system has run the command line in this run.
Ran == queryString # <<>>

IsDownload(p) == p[1] = "+workshop_download_item"

HasParameter(p) == \E k \in 1 .. Len(Params) : Params[k] = p

AllPresent == \A i \in Items : isdir(content[ItemId(i)])

UserConfigured == "steam_user" \in configFile.json.keys

GameUpdateRequested ==
  "do_game_update" \in configFile.json.keys /\ configFile.json.do_game_update

AppUpdate == addGameUpdateToQueryParameters(NoQuery).parameters[1]

\* A step that creates a link under the mods directory.
LinkCreated ==
  \E n \in EntryNames : islink(modsEntries'[n]) /\ modsEntries'[n] # modsEntries[n]

RECURSIVE StaleDirectives(_)
\* The download directives of the items judged stale, from item i on, in
\* registry order.
StaleDirectives(i) ==
  IF i > Len(config.MODS) THEN <<>>
  ELSE (IF judged[i] THEN <<DownloadItem(config, ItemId(i))>> ELSE <<>>)
         \o StaleDirectives(i + 1)

\* C1: a step creates a link under the mods directory only from the state
\* after a verification that found every registry item's content directory,
\* and when an item is absent after the fetch the verifier's step ends the
\* run, reports it and leaves the mods directory as it was.
C1_NoLinkUnlessVerified ==
  [][ /\ (LinkCreated => pc = "verified" /\ AllPresent)
      /\ (pc = "fetched" /\ ~AllPresent =>
            /\ pc' = "exited"
            /\ modsEntries' = modsEntries
            /\ symlinked' = {}
            /\ errorLog'[Len(errorLog')] = <<"Unrecoverable error", <<>>>>) ]_vars

\* C1 witness: the run ended in the verifier with one item present and
\* one absent, and the present item has no link.
C1_Witness ==
  /\ pc = "exited"
  /\ Ran
  /\ ~AllPresent
  /\ symlinked = {}
  /\ \E i \in Items : isdir(content[ItemId(i)]) /\ ~islink(modsEntries[ItemName(i)])

C3_Claim ==
  \A i \in Items :
    (pc = "added" /\ isdir(content[ItemId(i)]) /\ responses[i] \in Times)
      => (judged[i] <=> responses[i] >= content[ItemId(i)])

\* C4: an item whose content directory does not exist is judged stale and
\* its download directive is added to the command.
C4_AbsentIsStale ==
  \A i \in Items :
    (pc = "added" /\ ~isdir(content[ItemId(i)]))
      => (judged[i] /\ HasParameter(DownloadItem(config, ItemId(i))))

\* C4 witness: in one loop an absent item was added while a present item,
\* whose change-log has a marker, was skipped.
C4_Witness ==
  /\ pc = "added"
  /\ \E i \in Items : ~isdir(content[ItemId(i)]) /\ judged[i]
  /\ \E j \in Items : responses[j] \in Times /\ ~judged[j]

\* C5: the command that was run has the force-install directive first, the
\* login directive of a configured username second, the download directives
\* of exactly the items judged stale in registry order, "+quit" last and
\* once, and its words are those of the parameters in that order.
C5_CommandOrdering ==
  Ran =>
    /\ Params[1] = <<"+force_install_dir", config.SERVER_DIR>>
    /\ (UserConfigured => Params[2] = <<"+login", configFile.json.steam_user>>)
    /\ SelectSeq(Params, IsDownload) = StaleDirectives(1)
    /\ Params[Len(Params)] = <<"+quit">>
    /\ Cardinality({k \in 1 .. Len(Params) : Params[k] = <<"+quit">>}) = 1
    /\ queryString = <<"sudo", config.STEAM_CMD>> \o join(Params)

\* C5 witness: a command was run for a configured username with both
\* registry items judged stale.
C5_Witness ==
  /\ Ran
  /\ UserConfigured
  /\ judged = <<TRUE, TRUE>>
  /\ Len(Params) = 5

\* C6 as stated: the command has a "+login" parameter exactly when the
\* configuration has a username.
C6_Claim ==
  Ran => ((\E k \in 1 .. Len(Params) : Params[k][1] = "+login") <=> UserConfigured)

\* C7 as stated: with do_game_update true the command has the "+app_update"
\* directive before every download directive, and otherwise it has none.
C7_Claim ==
  Ran =>
    IF GameUpdateRequested
      THEN \E k \in 1 .. Len(Params) :
             /\ Params[k] = AppUpdate
             /\ \A j \in 1 .. Len(Params) : IsDownload(Params[j]) => k < j
      ELSE ~HasParameter(AppUpdate)

\* C8 as stated: a run that ended through a failure has a non-zero exit
\* status, and only a run that completed has exit status zero.
C8_Claim ==
  /\ (pc = "exited" => exitStatus # 0)
  /\ (exitStatus = 0 => pc = "done")

\* C9 as stated: after clean the workshop directory does not exist and the
\* mods directory has no entry.
C9_Claim ==
  pc = "cleaned" =>
    /\ ~isdir(workshopCtime)
    /\ \A n \in EntryNames : ~lexists(modsEntries[n])

====
